---- MODULE Spec2Model ----
(***************************************************************************)
(* A model of the job-board crawler in src/webcrawler.py: the URL          *)
(* expander, the per-URL fetch/extract/filter/render task, the shared      *)
(* report file and the asyncio orchestration of main().                    *)
(*                                                                         *)
(* Text is a sequence of characters (one-character strings; a Hebrew       *)
(* letter and the double quote are written by their code points, "U+05EA"  *)
(* and "U+0022").  URLs are strings.                                       *)
(* A Python dict is a sequence of [key, val] records with distinct keys,   *)
(* in insertion order.                                                     *)
(***************************************************************************)
EXTENDS Integers, Sequences, FiniteSets, TLC

VARIABLES
    main_pc,    \* position of main() / asyncio.run in the current process
    run,        \* number of the current pipeline run (process)
    exists,     \* whether jobs_output.html exists on disk
    file,       \* content of jobs_output.html, a sequence of lines
    tasks,      \* url index -> the asyncio task of generate_html(url, ...)
    log,        \* set of records the logger has received in this run
    stale,      \* number of lines jobs_output.html held when this run started
    written,    \* what this run has appended to jobs_output.html so far
    call,       \* the call under examination of a pure method, with arguments
    ret         \* its result

vars == <<main_pc, run, exists, file, tasks, log, stale, written, call, ret>>

pipeline_vars == <<main_pc, run, exists, file, tasks, log, stale, written>>

(***************************************************************************)
(* Bounds of the model.                                                    *)
(***************************************************************************)
NumUrls == 3        \* URL tasks launched per run
MaxRuns == 2        \* successive pipeline runs
MaxBases == 3       \* base URLs given to generate_paged_urls
MaxTextLen == 2     \* characters of a description
MaxKeywordLen == 2  \* characters of a keyword
MaxKeywords == 2    \* keywords in a list
MaxEntries == 2     \* job entries on a page
MaxJobs == 2        \* records in a mapping given to the keyword filter

(***************************************************************************)
(* Sequences and Python strings.                                           *)
(***************************************************************************)
RECURSIVE SeqsUpTo(_, _)
SeqsUpTo(S, n) ==
    IF n = 0 THEN {<<>>}
    ELSE LET shorter == SeqsUpTo(S, n - 1)
         IN  shorter \cup {Append(s, x) : s \in {t \in shorter : Len(t) = n - 1}, x \in S}

RECURSIVE Flatten(_)
Flatten(ss) == IF ss = <<>> THEN <<>> ELSE Head(ss) \o Flatten(Tail(ss))

\* str.lower() on one character of the model's alphabet
LowerChar(c) ==
    CASE c = "A" -> "a"
      [] c = "B" -> "b"
      [] c = "X" -> "x"
      [] OTHER -> c

\* str.lower()
Lower(s) == [i \in 1..Len(s) |-> LowerChar(s[i])]

\* Python's `sub in s` on strings
Contains(sub, s) ==
    \E i \in 1..(Len(s) - Len(sub) + 1) : SubSeq(s, i, i + Len(sub) - 1) = sub

WhiteSpace == {" "}

\* str.strip()
RECURSIVE LStrip(_)
LStrip(s) == IF s # <<>> /\ Head(s) \in WhiteSpace THEN LStrip(Tail(s)) ELSE s

RECURSIVE RStrip(_)
RStrip(s) ==
    IF s # <<>> /\ s[Len(s)] \in WhiteSpace THEN RStrip(SubSeq(s, 1, Len(s) - 1)) ELSE s

Strip(s) == RStrip(LStrip(s))

\* str.find(sub, start): the first occurrence at or after start, 0 when none
Find(s, sub, start) ==
    LET hits == {j \in start..(Len(s) - Len(sub) + 1) : SubSeq(s, j, j + Len(sub) - 1) = sub}
    IN  IF hits = {} THEN 0 ELSE CHOOSE j \in hits : \A k \in hits : j <= k

\* str.replace(old, new): the occurrences of old, left to right, not overlapping;
\* an empty old matches before every character and at the end
RECURSIVE ReplaceFrom(_, _, _, _)
ReplaceFrom(s, old, new, i) ==
    IF old = <<>>
    THEN IF i > Len(s) THEN new ELSE new \o <<s[i]>> \o ReplaceFrom(s, old, new, i + 1)
    ELSE LET j == Find(s, old, i)
         IN  IF j = 0 THEN SubSeq(s, i, Len(s))
             ELSE SubSeq(s, i, j - 1) \o new \o ReplaceFrom(s, old, new, j + Len(old))

Replace(s, old, new) == ReplaceFrom(s, old, new, 1)

(***************************************************************************)
(* HTMLJobExtractor.is_hebrew, highlight_keywords.                         *)
(***************************************************************************)
\* the characters of the model's alphabet in U+0590..U+05FF
HebrewBlock == {"U+05EA"}

is_hebrew(text) == \E i \in 1..Len(text) : text[i] \in HebrewBlock

\* <span style="color:red; font-weight:bold;">, character by character
OpenTag ==
    << "<", "s", "p", "a", "n", " ", "s", "t", "y", "l", "e", "=", "U+0022",
       "c", "o", "l", "o", "r", ":", "r", "e", "d", ";", " ",
       "f", "o", "n", "t", "-", "w", "e", "i", "g", "h", "t", ":",
       "b", "o", "l", "d", ";", "U+0022", ">" >>

\* </span>
CloseTag == << "<", "/", "s", "p", "a", "n", ">" >>

RECURSIVE highlight_keywords(_, _)
highlight_keywords(text, keywords) ==
    IF keywords = <<>> THEN text
    ELSE highlight_keywords(
             Replace(text, Head(keywords), OpenTag \o Head(keywords) \o CloseTag),
             Tail(keywords))

(***************************************************************************)
(* HTMLJobExtractor.generate_paged_urls.                                   *)
(***************************************************************************)
PageStop == 10      \* range(1, 10)

\* a variant that asks for the first page with a parameter as well
PagesOfAllParameterized(url) ==
    [page \in 1..PageStop |-> url \o "?page=" \o ToString(page)]

PagesOf(url) == <<url>> \o [page \in 1..(PageStop - 1) |-> url \o "?page=" \o ToString(page)]

RECURSIVE generate_paged_urls(_)
generate_paged_urls(bases) ==
    IF bases = <<>> THEN <<>>
    ELSE PagesOf(Head(bases)) \o generate_paged_urls(Tail(bases))

\* main's base_urls
base_urls ==
    << "https://www.mcmc.org.il/he/jobs", "https://taasuka.galil-elion.org.il/he/jobs",
       "https://www.mwg.org.il/he/jobs", "https://www.mmk.org.il/he/jobs" >>

(***************************************************************************)
(* Python dicts, in insertion order.                                       *)
(***************************************************************************)
DictKeys(d) == {d[i].key : i \in 1..Len(d)}

\* d[k] = v: a key already present keeps its place
DictSet(d, k, v) ==
    IF k \in DictKeys(d)
    THEN [i \in 1..Len(d) |-> IF d[i].key = k THEN [key |-> k, val |-> v] ELSE d[i]]
    ELSE Append(d, [key |-> k, val |-> v])

(***************************************************************************)
(* The parsed page.  A page is the sequence of its job entries (the divs   *)
(* the container selector of extract_job_ids matches), and an entry holds, *)
(* for each field selector, the element that find() returns: None          *)
(* ([found |-> FALSE]) or a tag with its text.  The title element holds    *)
(* what find("h3") returns inside it.                                      *)
(***************************************************************************)
None == [found |-> FALSE]

Tag(text) == [found |-> TRUE, text |-> text]

TitleTag(h3) == [found |-> TRUE, h3 |-> h3]

NA == <<"N", "/", "A">>

\* HTMLJobExtractor.extract_text_or_default
extract_text_or_default(element, default) ==
    IF element.found THEN Strip(element.text) ELSE default

\* job_title_element.find("h3").text.strip(): None has neither find nor text
TitleRaises(entry) == ~entry.title.found \/ ~entry.title.h3.found

\* one iteration of the loop of extract_job_ids, for an entry that does not raise
JobOf(entry) ==
    LET job_title == Strip(entry.title.h3.text)
    IN  [ description |-> extract_text_or_default(entry.text, NA),
          date        |-> extract_text_or_default(entry.date, NA),
          area        |-> extract_text_or_default(entry.area, NA),
          title       |-> IF job_title # <<>> THEN job_title ELSE NA ]

\* HTMLJobExtractor.extract_job_ids: [raised, jobs]; an AttributeError leaves the
\* loop and the method
RECURSIVE ExtractFrom(_, _)
ExtractFrom(entries, jobs) ==
    IF entries = <<>> THEN [raised |-> FALSE, jobs |-> jobs]
    ELSE IF TitleRaises(Head(entries)) THEN [raised |-> TRUE, jobs |-> <<>>]
         ELSE ExtractFrom(Tail(entries),
                          DictSet(jobs, extract_text_or_default(Head(entries).id, NA),
                                  JobOf(Head(entries))))

extract_job_ids(soup) == ExtractFrom(soup, <<>>)

(***************************************************************************)
(* The keyword filter of check_keywords_in_page.                           *)
(***************************************************************************)
\* a variant that compares without lowering
AnyKeywordInCaseSensitive(description, keywords) ==
    \E k \in 1..Len(keywords) : Contains(keywords[k], description)

\* any(keyword.lower() in description.lower() for keyword in keywords)
AnyKeywordIn(description, keywords) ==
    \E k \in 1..Len(keywords) : Contains(Lower(keywords[k]), Lower(description))

MatchingJobs(jobs, keywords) ==
    SelectSeq(jobs, LAMBDA kv : AnyKeywordIn(kv.val.description, keywords))

(***************************************************************************)
(* The report file: a sequence of lines.                                   *)
(***************************************************************************)
\* the block save_styles_to_html writes
Header ==
    << [tag |-> "doctype"], [tag |-> "title", text |-> "Job Listings"],
       [tag |-> "stylesheet", href |-> "styles.css"] >>

\* open(file_name, "a") and write
AppendToFile(f, content) == f \o content

\* a variant that opens the file with "w"
save_html_truncating(f, html_content) == html_content

\* a variant whose write lands inside what the file already holds
save_html_inside(f, html_content) ==
    IF f = <<>> THEN html_content
    ELSE SubSeq(f, 1, Len(f) - 1) \o html_content \o <<f[Len(f)]>>

\* HTMLJobExtractor.save_html
save_html(f, html_content) == AppendToFile(f, html_content)

\* HTMLJobExtractor.save_styles_to_html
save_styles_to_html(f) == AppendToFile(f, Header)

\* the html_content generate_html builds for a URL with matching jobs
JobBlock(kv, keywords) ==
    [ tag         |-> "job",
      direction   |-> IF is_hebrew(kv.val.description) THEN "rtl" ELSE "ltr",
      title       |-> kv.val.title,
      job_id      |-> kv.key,
      area        |-> kv.val.area,
      date        |-> kv.val.date,
      description |-> highlight_keywords(kv.val.description, keywords) ]

Fragment(url, keywords, matching_jobs) ==
    << [tag |-> "section", url |-> url, keywords |-> keywords] >>
    \o [j \in 1..Len(matching_jobs) |-> JobBlock(matching_jobs[j], keywords)]
    \o << [tag |-> "end"] >>

(***************************************************************************)
(* The pipeline: main(), check_multiple_urls and the generate_html tasks.  *)
(***************************************************************************)
\* main's search_keywords, in the model's alphabet
search_keywords == << <<"a", "b">>, <<"U+05EA">> >>

\* the URLs main hands to check_multiple_urls
test_urls == SubSeq(generate_paged_urls(base_urls), 1, NumUrls)

\* the pages a site may serve
PageMatch ==
    << [ id |-> Tag(<<"7">>), text |-> Tag(<<"x", "A", "b">>),
         title |-> TitleTag(Tag(<<"t">>)), date |-> None, area |-> Tag(<<"n">>) ] >>

PageNoMatch ==
    << [ id |-> Tag(<<"8">>), text |-> Tag(<<"x">>),
         title |-> TitleTag(Tag(<<"t">>)), date |-> Tag(<<"d">>), area |-> None ] >>

PageNoTitle ==
    << [ id |-> Tag(<<"9">>), text |-> Tag(<<"a", "b">>),
         title |-> None, date |-> Tag(<<"d">>), area |-> Tag(<<"n">>) ] >>

ServedPages == {PageMatch, PageNoMatch, PageNoTitle}

NoPage == <<>>

\* what the exceptions of a fetch are; aiohttp.ClientError is the base class of
\* the first three, and a total timeout raises asyncio.TimeoutError, which is not one
GetErrors == {"ClientConnectorError", "ClientResponseError", "TimeoutError"}

TextErrors == {"ClientPayloadError", "TimeoutError"}

\* except aiohttp.ClientError
IsClientError(e) == e \in {"ClientConnectorError", "ClientResponseError", "ClientPayloadError"}

NewTask == [pc |-> "get", outcome |-> "none", page |-> NoPage]

Pending(t) == t.pc \in {"get", "text"}

\* a variant that leaves the report of the earlier run in place
KeepReport(f) == f

\* os.remove("jobs_output.html") when it exists
RemoveReport(f) == <<>>

PipelineInit ==
    /\ main_pc = "start"
    /\ run = 1
    /\ exists = FALSE
    /\ file = <<>>
    /\ tasks = <<>>
    /\ log = {}
    /\ stale = 0
    /\ written = <<>>

\* main: the report and the log file of an earlier run are deleted
MainRemove ==
    /\ main_pc = "start"
    /\ file' = IF exists THEN RemoveReport(file) ELSE file
    /\ exists' = FALSE
    /\ log' = {}
    /\ written' = <<>>
    /\ main_pc' = "configured"
    /\ UNCHANGED <<run, tasks, stale, call, ret>>

\* main: extractor.save_styles_to_html()
MainSaveStyles ==
    /\ main_pc = "configured"
    /\ file' = save_styles_to_html(file)
    /\ exists' = TRUE
    /\ written' = written \o Header
    /\ log' = log \cup {[level |-> "info", msg |-> "HTML file generated", url |-> ""]}
    /\ main_pc' = "styled"
    /\ UNCHANGED <<run, tasks, stale, call, ret>>

\* check_multiple_urls: one task per URL, then await asyncio.gather(*tasks)
MainLaunch ==
    /\ main_pc = "styled"
    /\ tasks' = [i \in 1..Len(test_urls) |-> NewTask]
    /\ main_pc' = "gather"
    /\ UNCHANGED <<run, exists, file, log, stale, written, call, ret>>

\* the rest of generate_html once check_keywords_in_page has returned
Render(i, matching_jobs) ==
    IF matching_jobs # <<>>
    THEN LET html_content == Fragment(test_urls[i], search_keywords, matching_jobs)
         IN  /\ file' = save_html(file, html_content)
             /\ written' = written \o html_content
             /\ log' = log \cup {[level |-> "info", msg |-> "Content added", url |-> test_urls[i]]}
    ELSE /\ log' = log \cup {[level |-> "info", msg |-> "No matching jobs", url |-> test_urls[i]]}
         /\ UNCHANGED <<file, written>>

\* except aiohttp.ClientError: log, return {}, and generate_html goes on with it
FetchErrorCaught(i, e) ==
    /\ tasks' = [tasks EXCEPT ![i] = [pc |-> "done", outcome |-> e, page |-> NoPage]]
    /\ log' = log \cup {[level |-> "error", msg |-> "Error fetching", url |-> test_urls[i]],
                        [level |-> "info", msg |-> "No matching jobs", url |-> test_urls[i]]}
    /\ UNCHANGED <<file, written>>

\* an exception no handler of the task catches ends the task with it
TaskRaises(i, e, page) ==
    /\ tasks' = [tasks EXCEPT ![i] = [pc |-> "failed", outcome |-> e, page |-> page]]
    /\ UNCHANGED <<file, written, log>>

\* session.get(url, timeout=10) answers, and response.raise_for_status()
TaskGet(i) ==
    /\ i \in DOMAIN tasks
    /\ tasks[i].pc = "get"
    /\ \E outcome \in {"ok"} \cup GetErrors :
          IF outcome = "ok"
          THEN /\ tasks' = [tasks EXCEPT ![i].pc = "text", ![i].outcome = "ok"]
               /\ UNCHANGED <<file, written, log>>
          ELSE IF IsClientError(outcome) THEN FetchErrorCaught(i, outcome)
               ELSE TaskRaises(i, outcome, NoPage)
    /\ UNCHANGED <<main_pc, run, exists, stale, call, ret>>

\* await response.text() answers; then parse, extract, filter, render and append
TaskText(i) ==
    /\ i \in DOMAIN tasks
    /\ tasks[i].pc = "text"
    /\ \/ \E e \in TextErrors :
             IF IsClientError(e) THEN FetchErrorCaught(i, e) ELSE TaskRaises(i, e, NoPage)
       \/ \E soup \in ServedPages :
             LET jobs == extract_job_ids(soup)
             IN  IF jobs.raised THEN TaskRaises(i, "AttributeError", soup)
                 ELSE /\ tasks' = [tasks EXCEPT ![i] = [pc |-> "done", outcome |-> "ok", page |-> soup]]
                      /\ Render(i, MatchingJobs(jobs.jobs, search_keywords))
    /\ UNCHANGED <<main_pc, run, exists, stale, call, ret>>

\* gather: every task has finished without an exception
GatherReturn ==
    /\ main_pc = "gather"
    /\ \A i \in DOMAIN tasks : tasks[i].pc = "done"
    /\ main_pc' = "returned"
    /\ UNCHANGED <<run, exists, file, tasks, log, stale, written, call, ret>>

\* gather: the first exception of a task is raised in check_multiple_urls, and main
GatherRaise ==
    /\ main_pc = "gather"
    /\ \E i \in DOMAIN tasks : tasks[i].pc = "failed"
    /\ main_pc' = "raised"
    /\ UNCHANGED <<run, exists, file, tasks, log, stale, written, call, ret>>

\* asyncio.run(main()) ends: the tasks still pending are cancelled, and the
\* exception of main is logged
RunEnds ==
    /\ main_pc \in {"returned", "raised"}
    /\ tasks' = [i \in DOMAIN tasks |->
                    IF Pending(tasks[i]) THEN [tasks[i] EXCEPT !.pc = "cancelled"] ELSE tasks[i]]
    /\ log' = IF main_pc = "raised"
              THEN log \cup {[level |-> "error", msg |-> "Call stack", url |-> ""]}
              ELSE log
    /\ main_pc' = "exited"
    /\ UNCHANGED <<run, exists, file, stale, written, call, ret>>

\* the program is started again
NextRun ==
    /\ main_pc = "exited"
    /\ run < MaxRuns
    /\ run' = run + 1
    /\ stale' = Len(file)
    /\ tasks' = <<>>
    /\ main_pc' = "start"
    /\ UNCHANGED <<exists, file, log, written, call, ret>>

NoCall == [fn |-> "none"]

NotReturned == [done |-> FALSE]

Returned(value) == [done |-> TRUE, value |-> value]

Init == PipelineInit /\ call = NoCall /\ ret = NotReturned

Next ==
    \/ MainRemove
    \/ MainSaveStyles
    \/ MainLaunch
    \/ \E i \in 1..NumUrls : TaskGet(i)
    \/ \E i \in 1..NumUrls : TaskText(i)
    \/ GatherReturn
    \/ GatherRaise
    \/ RunEnds
    \/ NextRun

Spec == Init /\ [][Next]_vars

(***************************************************************************)
(* The pure methods, each called once on an input drawn from a bounded     *)
(* set.  The pipeline stays as constructed.                                *)
(***************************************************************************)
BaseUrlSet == {base_urls[i] : i \in 1..Len(base_urls)}

InitExpand ==
    /\ PipelineInit
    /\ call \in {[fn |-> "generate_paged_urls", base_urls |-> b] : b \in SeqsUpTo(BaseUrlSet, MaxBases)}
    /\ ret = NotReturned

Expand ==
    /\ call.fn = "generate_paged_urls"
    /\ ~ret.done
    /\ ret' = Returned(generate_paged_urls(call.base_urls))
    /\ UNCHANGED <<pipeline_vars, call>>

SpecExpand == InitExpand /\ [][Expand]_vars

\* descriptions and keywords of the filter
FilterAlphabet == {"A", "b"}

KeywordPool == {<<>>, <<"a">>, <<"B">>, <<"b", "A">>}

\* a mapping of job ids "1", "2", ... to records with the given descriptions
JobsWith(descriptions) ==
    [j \in 1..Len(descriptions) |->
        [ key |-> <<ToString(j)>>,
          val |-> [description |-> descriptions[j], date |-> NA, area |-> <<"n">>,
                   title |-> <<"t">>] ]]

InitFilter ==
    /\ PipelineInit
    /\ call \in {[fn |-> "filter", jobs |-> JobsWith(ds), keywords |-> ks] :
                    ds \in SeqsUpTo(SeqsUpTo(FilterAlphabet, MaxTextLen), MaxJobs),
                    ks \in SeqsUpTo(KeywordPool, MaxKeywords)}
    /\ ret = NotReturned

Filter ==
    /\ call.fn = "filter"
    /\ ~ret.done
    /\ ret' = Returned(MatchingJobs(call.jobs, call.keywords))
    /\ UNCHANGED <<pipeline_vars, call>>

SpecFilter == InitFilter /\ [][Filter]_vars

\* the elements find() may return for the fields of an entry
IdElements == {None, Tag(<<"1">>), Tag(<<"2", " ">>)}

TextElements == {None, Tag(<<" ", "a", "b">>)}

DateElements == {None, Tag(<<"d">>)}

AreaElements == {None, Tag(<<"n">>)}

TitleElements == {None, TitleTag(None), TitleTag(Tag(<<>>)), TitleTag(Tag(<<"t", " ">>))}

Entries ==
    [id : IdElements, text : TextElements, title : TitleElements,
     date : DateElements, area : AreaElements]

InitExtract ==
    /\ PipelineInit
    /\ call \in {[fn |-> "extract_job_ids", soup |-> soup] : soup \in SeqsUpTo(Entries, MaxEntries)}
    /\ ret = NotReturned

Extract ==
    /\ call.fn = "extract_job_ids"
    /\ ~ret.done
    /\ ret' = Returned(extract_job_ids(call.soup))
    /\ UNCHANGED <<pipeline_vars, call>>

SpecExtract == InitExtract /\ [][Extract]_vars

\* descriptions and keywords of the highlighter: "a" and "b" occur in the span
\* markup, "x" does not
HighlightAlphabet == {"a", "b", "x"}

InitHighlight ==
    /\ PipelineInit
    /\ call \in {[fn |-> "highlight_keywords", text |-> t, keywords |-> ks] :
                    t \in SeqsUpTo(HighlightAlphabet, MaxTextLen),
                    ks \in SeqsUpTo(SeqsUpTo(HighlightAlphabet, MaxKeywordLen) \ {<<>>},
                                    MaxKeywords)}
    /\ ret = NotReturned

Highlight ==
    /\ call.fn = "highlight_keywords"
    /\ ~ret.done
    /\ ret' = Returned(highlight_keywords(call.text, call.keywords))
    /\ UNCHANGED <<pipeline_vars, call>>

SpecHighlight == InitHighlight /\ [][Highlight]_vars

(***************************************************************************)
(* Properties.                                                             *)
(***************************************************************************)
HeaderTags == {Header[n].tag : n \in 1..Len(Header)}

SectionPresent(i) ==
    \E n \in 1..Len(file) : file[n].tag = "section" /\ file[n].url = test_urls[i]

\* the records of the page a task was served that match the keywords
MatchesOf(t) ==
    IF t.page = NoPage \/ extract_job_ids(t.page).raised THEN <<>>
    ELSE MatchingJobs(extract_job_ids(t.page).jobs, search_keywords)

FetchOrParseFailed(t) == t.outcome \in GetErrors \cup TextErrors \cup {"AttributeError"}

Launched == main_pc \in {"gather", "returned", "raised", "exited"}

\* C1: when the fetch or the parse of one URL fails, no other URL's task is
\* cancelled, and at the end of the run every other URL's task has completed and
\* the section of each one with matching records is in the report.
TaskIsolation ==
    \A i, j \in DOMAIN tasks :
        (i # j /\ FetchOrParseFailed(tasks[i]) /\ ~FetchOrParseFailed(tasks[j])) =>
            /\ tasks[j].pc # "cancelled"
            /\ main_pc = "exited" =>
                  /\ tasks[j].pc = "done"
                  /\ MatchesOf(tasks[j]) # <<>> => SectionPresent(j)

\* C2: check_multiple_urls has returned or raised only when no URL task is pending.
OrchestratorWaitsForAll ==
    main_pc \in {"returned", "raised"} => \A i \in DOMAIN tasks : ~Pending(tasks[i])

\* C3: a URL whose GET fails at transport level (timeout, connection error, non-2xx
\* status) has its error logged, its task ends normally, and nothing of it is in
\* the report.
FetchFailureIsAValue ==
    \A i \in DOMAIN tasks :
        tasks[i].outcome \in GetErrors =>
            /\ tasks[i].pc = "done"
            /\ [level |-> "error", msg |-> "Error fetching", url |-> test_urls[i]] \in log
            /\ ~SectionPresent(i)

\* C4: the report is empty or starts with the header block, which occurs exactly
\* once, so no fragment precedes it.
HeaderOnceAndFirst ==
    \/ file = <<>>
    \/ /\ Len(file) >= Len(Header)
       /\ SubSeq(file, 1, Len(Header)) = Header
       /\ \A n \in (Len(Header) + 1)..Len(file) : file[n].tag \notin HeaderTags

HeaderOnceAndFirstWitness ==
    /\ \E i \in DOMAIN tasks : Pending(tasks[i])
    /\ Cardinality({i \in DOMAIN tasks : SectionPresent(i)}) >= 2
    /\ SubSeq(file, 1, Len(Header)) = Header

\* C5: every run starts its writes on an empty report, and from then on the report
\* holds what this run has written and nothing of an earlier run.
TruncationPerRun ==
    /\ main_pc = "configured" => file = <<>>
    /\ main_pc # "start" => file = written

TruncationPerRunWitness ==
    /\ run >= 2
    /\ main_pc = "exited"
    /\ stale > Len(Header)
    /\ Len(file) > Len(Header)
    /\ Len(file) # stale

\* the orders in which URL tasks may have appended
AppendOrders ==
    {o \in SeqsUpTo(DOMAIN tasks, Len(tasks)) : \A m, n \in 1..Len(o) : m # n => o[m] # o[n]}

FragmentOf(i) == Fragment(test_urls[i], search_keywords, MatchesOf(tasks[i]))

\* C9: once the tasks are launched the report is the header followed by whole
\* fragments, one after the other, of distinct URL tasks that have completed with
\* matching records.
WholeFragments ==
    Launched =>
        \E o \in AppendOrders :
            /\ \A n \in 1..Len(o) : tasks[o[n]].pc = "done" /\ MatchesOf(tasks[o[n]]) # <<>>
            /\ file = Header \o Flatten([n \in 1..Len(o) |-> FragmentOf(o[n])])

\* a later URL's fragment stands before an earlier URL's
WholeFragmentsWitness ==
    /\ Launched
    /\ \E m, n \in 1..Len(file) :
          /\ m < n
          /\ file[m].tag = "section" /\ file[n].tag = "section"
          /\ \E i, j \in DOMAIN tasks : i < j /\ file[m].url = test_urls[j] /\ file[n].url = test_urls[i]

\* the text an element gives a field, or the default
FieldOrNA(element) == IF element.found THEN Strip(element.text) ELSE NA

\* the last entry of the page with the same job id decides the record
LastWithId(soup, n) ==
    \A m \in (n + 1)..Len(soup) : FieldOrNA(soup[m].id) # FieldOrNA(soup[n].id)

Lookup(d, k) == (CHOOSE i \in 1..Len(d) : d[i].key = k)

\* C6: extract_job_ids never fails on a missing field; every entry gives a record
\* under its id (or "N/A"), in which a field without element is "N/A" and a field
\* with one keeps its text.
MissingFieldDefaulting ==
    (call.fn = "extract_job_ids" /\ ret.done) =>
        /\ ~ret.value.raised
        /\ \A n \in 1..Len(call.soup) :
              LET entry == call.soup[n]
                  jobs == ret.value.jobs
                  job_id == FieldOrNA(entry.id)
              IN  /\ job_id \in DictKeys(jobs)
                  /\ LastWithId(call.soup, n) =>
                        LET job == jobs[Lookup(jobs, job_id)].val
                        IN  /\ job.description = FieldOrNA(entry.text)
                            /\ job.date = FieldOrNA(entry.date)
                            /\ job.area = FieldOrNA(entry.area)
                            /\ (~entry.title.found \/ ~entry.title.h3.found) => job.title = NA

CasePairs == {{"a", "A"}, {"b", "B"}, {"x", "X"}}

SameLetter(c, d) == c = d \/ {c, d} \in CasePairs

OccursIgnoringCase(keyword, description) ==
    \E i \in 0..(Len(description) - Len(keyword)) :
        \A j \in 1..Len(keyword) : SameLetter(description[i + j], keyword[j])

\* C7: the filter returns, in order and unaltered, exactly the records whose
\* description holds some keyword as a substring, letter case ignored; with no
\* keyword it returns nothing.
KeywordFilterExact ==
    (call.fn = "filter" /\ ret.done) =>
        /\ ret.value = SelectSeq(call.jobs,
                                 LAMBDA kv : \E k \in 1..Len(call.keywords) :
                                     OccursIgnoringCase(call.keywords[k], kv.val.description))
        /\ call.keywords = <<>> => ret.value = <<>>

\* one record is kept on a match that differs in case, another is dropped
KeywordFilterExactWitness ==
    /\ call.fn = "filter" /\ ret.done
    /\ Len(call.jobs) >= 2
    /\ Len(ret.value) = 1
    /\ \A k \in 1..Len(call.keywords) :
          /\ call.keywords[k] # <<>>
          /\ ~Contains(call.keywords[k], ret.value[1].val.description)

\* C8: N base URLs give N*10 URLs, in groups of ten in the order of the base URLs,
\* each group the base URL followed by base?page=1 .. base?page=9.
UrlExpansion ==
    (call.fn = "generate_paged_urls" /\ ret.done) =>
        /\ Len(ret.value) = Len(call.base_urls) * 10
        /\ \A n \in 1..Len(call.base_urls) :
              /\ ret.value[(n - 1) * 10 + 1] = call.base_urls[n]
              /\ \A k \in 1..9 :
                    ret.value[(n - 1) * 10 + 1 + k] = call.base_urls[n] \o "?page=" \o ToString(k)

UrlExpansionWitness ==
    /\ call.fn = "generate_paged_urls" /\ ret.done
    /\ Len(call.base_urls) >= 2
    /\ call.base_urls[1] # call.base_urls[2]
    /\ Len(ret.value) >= 20

\* the text with every span tag taken out
StripTags(s) == Replace(Replace(s, OpenTag, <<>>), CloseTag, <<>>)

Occurrences(s, sub) ==
    {i \in 1..(Len(s) - Len(sub) + 1) : SubSeq(s, i, i + Len(sub) - 1) = sub}

\* every opening tag is closed before another one opens
SpansFlat(s) ==
    \A i \in Occurrences(s, OpenTag) :
        \E c \in Occurrences(s, CloseTag) :
            /\ c > i
            /\ \A j \in Occurrences(s, OpenTag) : ~(i < j /\ j < c)

\* C10: the highlighted text is the original description with flat, unnested
\* spans put around keywords: taking the span tags out gives the description back.
HighlightAgainstOriginal ==
    (call.fn = "highlight_keywords" /\ ret.done) =>
        /\ StripTags(ret.value) = call.text
        /\ SpansFlat(ret.value)

====
